---- MODULE Spec2Model ----
(***************************************************************************)
(* signals-relay: the trade-execution pipeline.                            *)
(*                                                                         *)
(*   TradingBus  (src/signals_relay/bus.py)   queue -> single worker ->    *)
(*               _handle_signal: set_leverage, switch_isolated,            *)
(*               instruments-info, place_order.                            *)
(*   BybitBroker (src/signals_relay/broker/bybit.py)   _request: time      *)
(*               sync, signing, the retry/resync loop.                     *)
(*                                                                         *)
(* Everything runs on one asyncio event loop, so a step of the model is    *)
(* the code that runs between two awaits that really suspend: the HTTP     *)
(* calls of the httpx client, asyncio.sleep, Queue.get on an empty queue   *)
(* and Semaphore.acquire with no free permit.  The exchange and the clock  *)
(* are the environment: every response is a nondeterministic input.        *)
(*                                                                         *)
(* Spec is the pipeline in every configuration, FairSpec adds the fairness *)
(* of the consumer's steps, CacheSpec lets the exchange change its         *)
(* instrument data, and QuantSpec applies the sizing and quantization      *)
(* functions of _handle_signal to one input at a time.                     *)
(***************************************************************************)
EXTENDS Integers, Sequences, FiniteSets, TLC

\* ---------------------------------------------------------------- bounds
MaxSignals == 2          \* instructions enqueued in one run
MaxTicks == 1            \* clock ticks in one run
max_retries == 2         \* cfg.BYBIT_MAX_RETRIES (env-configurable)
time_resync_sec == 0     \* cfg.BYBIT_TIME_RESYNC_SEC (env-configurable), in ticks

Limits == {1, 2}         \* values of max_concurrent (bus.py:27 defaults to 1)
Symbols == {"SOLUSDT", "BTCUSDT"}
Skews == {0, 500}        \* server_ms - local_ms measured by one time sync
\* tickSize / qtyStep pairs of an instruments-info row; the second is the pair
\* of defaults of bybit.py:171-172
InstrSpecs == {[tick |-> "0.01", lot |-> "0.1"], [tick |-> "0.0001", lot |-> "0.001"]}
StaticSpec == [tick |-> "0.01", lot |-> "0.1"]
Ids == 1..MaxSignals

\* Sizing and quantization.  A decimal amount is an integer number of units of
\* 10^-dec; dec = 2 is the scale of prices and quantities such as 150.00 and
\* 13.30, dec = 11 is one digit below the ten places _quantize rounds to.
MaxQty == 24             \* largest quantity passed to quantize_price_qty, in units
MaxPrice == 8            \* largest price passed to quantize_price_qty, in units
Decs == {2, 11}
StepUnits == {1, 3, 5, 10, 20, 25}    \* tick sizes and quantity steps, in units
Biases == {-1, 0, 1}     \* which way a float quotient that is a tie in decimals falls
Sides == {"long", "short"}            \* models.py:8-10  Side
Entries == {0, 7, 15000}              \* TradeSignal.entry, in units of 0.01
Stops == {6, 15500}                   \* TradeSignal.stop
Takes == {9, 14000}                   \* TradeSignal.take
Overrides == {<< >>, << 0 >>, << 5 >>} \* TradeSignal.leverage: None or an int
Leverages == {2, 20}                  \* cfg.RISK_DEFAULT_LEVERAGE (config.py:95: 20)
Risks == {1, 10000}                   \* cfg.RISK_USDT_PER_TRADE (config.py:94: 100.0)

\* ---------------------------------------------------------------- state
VARIABLES
    q,               \* TradingBus.q: asyncio.Queue of TradeSignal, [id, symbol]
    task,            \* TradingBus._task: "None" | "alive" | "finished"
    cancelReq,       \* Task.cancel() was called and CancelledError is not yet delivered
    stopPc,          \* position of stop(): "idle" | "awaiting" (await self._task)
    sem,             \* free permits of TradingBus.sem
    max_concurrent,  \* constructor argument of TradingBus
    switch_isolated, \* cfg.BYBIT_SWITCH_ISOLATED
    pc,              \* await the consumer task is suspended at
    cur,             \* the TradeSignal inside _handle_signal, NoSignal when none
    call,            \* opname of the logical call in _request, "none" when none
    tries,           \* BybitBroker._request: tries
    time_offset_ms,  \* BybitBroker._time_offset_ms
    last_sync_ts,    \* BybitBroker._last_sync_ts
    instruments,     \* BybitBroker._instruments: symbol -> (tick, lot), a dict
    now,             \* time.time(), in ticks
    enqueued,        \* number of enqueue() calls so far; the next id is enqueued + 1
    listing,         \* the exchange: the tickSize / qtyStep pairs it may answer with
    \* ---- history, read by the properties only
    status,          \* id -> "new" | "queued" | "parked" | "handling" | "done";
                     \* parked is queued by an enqueue() made after a stop(): while
                     \* _task is None and after a handler had been entered
    lastOutcome,     \* how the _handle_signal ended that ended in the step just taken
    startLog,        \* ids in the order in which _handle_signal was entered
    invoked,         \* id -> number of times _handle_signal was entered for it
    cs,              \* events of the logical call in progress
    lastDone,        \* the logical call that ended in the step just taken
    orderPosts,      \* POST /v5/order/create requests sent for the instruction in cur
    headers,         \* << X-BAPI-TIMESTAMP >> of the request in flight, << >> if unsigned
    signedAt,        \* the clock when the request in flight was signed, 0 if unsigned
    lastSync,        \* the _sync_time that failed in the step just taken
    consumers,       \* _worker tasks created by start() that have not ended
    \* ---- the sizing and quantization functions, applied to one input
    arg,             \* the arguments
    ret              \* << >>, or << the value returned >>

vars == << q, task, cancelReq, stopPc, sem, max_concurrent, switch_isolated, pc, cur,
           call, tries, time_offset_ms, last_sync_ts, instruments, now, enqueued,
           listing,
           status, lastOutcome, startLog, invoked, cs, lastDone, orderPosts,
           headers, signedAt, lastSync, consumers, arg, ret >>

ZeroCs == [tsw |-> 0, http |-> 0, err |-> 0, ok |-> 0, resyncs |-> 0, sleeps |-> 0,
           empty |-> 0]
NoSignal == [id |-> 0, symbol |-> "-"]
NoDone == [op |-> "none", outcome |-> "none", tries |-> 0, cs |-> ZeroCs,
           sig |-> NoSignal, posts |-> 0]
NoSync == [res |-> "none", phase |-> "none", offset |-> 0, ts |-> 0]
NoArg == [op |-> "none"]
EmptyDict == [s \in {} |-> [tick |-> "-", lot |-> "-"]]

\* The part of the state the consumer task works on, as one record.
Cur ==
    [ q |-> q, sem |-> sem, pc |-> pc, cur |-> cur, call |-> call, tries |-> tries,
      time_offset_ms |-> time_offset_ms, last_sync_ts |-> last_sync_ts,
      instruments |-> instruments, status |-> status, lastOutcome |-> "none",
      startLog |-> startLog,
      invoked |-> invoked, cs |-> cs, lastDone |-> NoDone, orderPosts |-> orderPosts,
      headers |-> headers, signedAt |-> signedAt, lastSync |-> NoSync ]

Apply(w) ==
    /\ q' = w.q
    /\ sem' = w.sem
    /\ pc' = w.pc
    /\ cur' = w.cur
    /\ call' = w.call
    /\ tries' = w.tries
    /\ time_offset_ms' = w.time_offset_ms
    /\ last_sync_ts' = w.last_sync_ts
    /\ instruments' = w.instruments
    /\ status' = w.status
    /\ lastOutcome' = w.lastOutcome
    /\ startLog' = w.startLog
    /\ invoked' = w.invoked
    /\ cs' = w.cs
    /\ lastDone' = w.lastDone
    /\ orderPosts' = w.orderPosts
    /\ headers' = w.headers
    /\ signedAt' = w.signedAt
    /\ lastSync' = w.lastSync

\* ---------------------------------------------------------------- broker
\* bybit.py:19  _now_ms
NowMs == now * 1000

\* mutant: every logical call syncs the time before its first attempt
NeedResyncAlways(w) == TRUE

\* bybit.py:84-85  _need_resync
NeedResync(w) == (now - w.last_sync_ts) > time_resync_sec

\* mutant: _sync_time publishes the offset when the answer arrives and leaves
\* _last_sync_ts for later
SyncTimeOffsetOnly(w, r) ==
    IF r.ok
    THEN [w EXCEPT !.time_offset_ms = r.skew]
    ELSE [w EXCEPT !.lastSync = [res |-> "failed", phase |-> w.pc,
                                 offset |-> w.time_offset_ms, ts |-> w.last_sync_ts]]

\* mutant: _sync_time without its try/except: a failing sync resets the offset
\* before the error is raised
SyncTimeClobbers(w, r) ==
    IF r.ok
    THEN [w EXCEPT !.time_offset_ms = r.skew, !.last_sync_ts = now]
    ELSE [w EXCEPT !.time_offset_ms = 0, !.last_sync_ts = now,
                   !.lastSync = [res |-> "failed", phase |-> w.pc,
                                 offset |-> w.time_offset_ms, ts |-> w.last_sync_ts]]

\* bybit.py:59-82  _sync_time, once the GET /v5/market/time has been answered.
\* r.ok is FALSE for a transport error, a bad status or an unrecognised payload:
\* the except clause swallows it and both fields stay as they were.
\* lastSync notes a failure, with the two fields as they were before it.
SyncTime(w, r) ==
    IF r.ok
    THEN LET server_ms == NowMs + r.skew
             local_ms == NowMs
         IN [w EXCEPT !.time_offset_ms = server_ms - local_ms, !.last_sync_ts = now]
    ELSE [w EXCEPT !.lastSync = [res |-> "failed", phase |-> w.pc,
                                 offset |-> w.time_offset_ms, ts |-> w.last_sync_ts]]

TimeResponses == [ok : {TRUE}, skew : Skews] \cup [ok : {FALSE}, skew : {0}]

\* mutant: the budget test as `tries < max_retries`
BudgetStrict(w, kind) == w.tries < max_retries

\* mutant: one budget per failure kind instead of the shared attempt counter
BudgetPerKind(w, kind) ==
    (IF kind = "http" THEN w.cs.http ELSE w.cs.tsw) <= max_retries

\* bybit.py:143, 148  the retry budget test of both retry branches
BudgetRemains(w, kind) == w.tries <= max_retries

\* the `auth` argument of _request: bybit.py:165 passes auth=False, the three
\* trading calls leave the default True (bybit.py:196, 206, 242)
Auth(op) == op # "instruments-info"

\* bybit.py:90  ts of _signed_headers
SignedTs(w) == NowMs + w.time_offset_ms

\* mutant: the headers are built once, before the loop, and sent with every attempt
SendAttemptReusesHeaders(w) ==
    [w EXCEPT !.tries = @ + 1,
              !.pc = "send",
              !.orderPosts = IF w.call = "place_order" THEN @ + 1 ELSE @,
              !.headers = IF ~Auth(w.call) THEN << >>
                          ELSE IF w.tries = 0 THEN << SignedTs(w) >> ELSE w.headers,
              !.signedAt = IF Auth(w.call) THEN now ELSE 0]

\* bybit.py:128-135  top of the loop: count the attempt, sign it, send it
SendAttempt(w) ==
    [w EXCEPT !.tries = @ + 1,
              !.pc = "send",
              !.orderPosts = IF w.call = "place_order" THEN @ + 1 ELSE @,
              !.headers = IF Auth(w.call) THEN << SignedTs(w) >> ELSE << >>,
              !.signedAt = IF Auth(w.call) THEN now ELSE 0]

\* bybit.py:124-127  entry of _request
StartRequest(w, op) ==
    LET w1 == [w EXCEPT !.call = op, !.tries = 0, !.cs = ZeroCs]
    IN IF NeedResync(w1) THEN [w1 EXCEPT !.pc = "presync"] ELSE SendAttempt(w1)

\* ------------------------------------------------- sizing, quantization
Places == 10             \* bybit.py:179  round(..., 10)
EpsilonInv == 1000000000 \* bus.py:130  1 / 1e-9

RECURSIVE Pow10(_)
Pow10(n) == IF n = 0 THEN 1 ELSE 10 * Pow10(n - 1)

Max(a, b) == IF a >= b THEN a ELSE b

\* Python's round(n / d) for d > 0: the nearest integer, a tie going to the
\* even one.  n / d is a float quotient: where the decimals make an exact tie
\* the float may lie just under or just over it (0.15 / 0.1 is
\* 1.4999999999999998), which bias decides.
RoundDiv(n, d, bias) ==
    LET f == n \div d
        r == n % d
    IN IF 2 * r < d THEN f
       ELSE IF 2 * r > d THEN f + 1
       ELSE IF bias < 0 THEN f
       ELSE IF bias > 0 THEN f + 1
       ELSE IF f % 2 = 0 THEN f ELSE f + 1

\* round(x, 10) of an amount x given in units of 10^-dec
RoundPlaces(x, dec, bias) ==
    IF dec <= Places THEN x
    ELSE LET g == Pow10(dec - Places) IN RoundDiv(x, g, bias) * g

\* bybit.py:177-179  _quantize; val is the rational val.n / val.d, in units
Quantize(val, step, dec, bias) ==
    RoundPlaces(RoundDiv(val.n, val.d * step, bias) * step, dec, bias)

Amount(x) == [n |-> x, d |-> 1]

\* mutant: quantize_price_qty without the max(..., lot)
QuantizePriceQtyNoFloor(price, qty, tick, lot, dec, bias) ==
    [price |-> IF price = << >> THEN << >>
               ELSE << Quantize(Amount(price[1]), tick, dec, bias) >>,
     qty |-> Quantize(qty, lot, dec, bias)]

\* bybit.py:181-187  quantize_price_qty, given the (tick, lot) of the symbol;
\* price is << >> for None
QuantizePriceQty(price, qty, tick, lot, dec, bias) ==
    [price |-> IF price = << >> THEN << >>
               ELSE << Quantize(Amount(price[1]), tick, dec, bias) >>,
     qty |-> Max(Quantize(qty, lot, dec, bias), lot)]

\* mutant: the nominal without the leverage
CalcQtyNoLeverage(usdt_per_trade, entry, leverage, dec) ==
    IF entry >= 1
    THEN [n |-> usdt_per_trade * Pow10(dec), d |-> entry]
    ELSE [n |-> usdt_per_trade * EpsilonInv, d |-> 1]

\* bus.py:128-130  _calc_qty, the quantity as a rational in units.  With
\* dec <= 9 every entry of at least one unit is above 1e-9, and an entry that
\* is not positive is replaced by 1e-9.
CalcQty(usdt_per_trade, entry, leverage, dec) ==
    LET nominal == usdt_per_trade * leverage
    IN IF entry >= 1
       THEN [n |-> nominal * Pow10(dec), d |-> entry]
       ELSE [n |-> nominal * EpsilonInv, d |-> 1]

\* bus.py:73  lev = s.leverage or self.default_leverage
Lev(a) ==
    IF a.leverage = << >> \/ a.leverage[1] = 0 THEN a.default_leverage ELSE a.leverage[1]

\* bybit.py:229-246  the body of POST /v5/order/create, as far as it depends on
\* the order: a key is present iff the code sets it.  The amounts go in as
\* str(float), which reads back as the same number.  category, symbol,
\* timeInForce, reduceOnly, tpslMode and the two trigger keys are configuration.
PlaceOrderBody(side, order_type, qty, price, take_profit, stop_loss) ==
    LET keys == {"side", "orderType", "qty"}
                  \cup (IF price # << >> THEN {"price"} ELSE {})
                  \cup (IF take_profit # << >> THEN {"takeProfit"} ELSE {})
                  \cup (IF stop_loss # << >> THEN {"stopLoss"} ELSE {})
    IN [k \in keys |->
          CASE k = "side" -> << side >>
            [] k = "orderType" -> << order_type >>
            [] k = "qty" -> << qty >>
            [] k = "price" -> price
            [] k = "takeProfit" -> take_profit
            [] OTHER -> stop_loss]

\* mutant: the entry is quantized and sent whatever the order type
OrderForAlwaysPriced(a) ==
    LET side == IF a.side = "short" THEN "Sell" ELSE "Buy"
        order_type == IF a.market_entry THEN "Market" ELSE "Limit"
        qty == CalcQty(a.usdt_per_trade, a.entry, Lev(a), a.dec)
        first == QuantizePriceQty(<< a.entry >>, qty, a.tick, a.lot, a.dec, a.bias)
        tp == QuantizePriceQty(<< a.take >>, Amount(first.qty), a.tick, a.lot, a.dec, a.bias)
        sl == QuantizePriceQty(<< a.stop >>, Amount(first.qty), a.tick, a.lot, a.dec, a.bias)
    IN [side |-> side, orderType |-> order_type, qty |-> first.qty,
        price |-> first.price, takeProfit |-> tp.price, stopLoss |-> sl.price,
        leverage |-> Lev(a),
        body |-> PlaceOrderBody(side, order_type, first.qty, first.price, tp.price, sl.price)]

\* bus.py:72-124, bybit.py:229-246  the order _handle_signal builds: side,
\* order type, sizing, the three quantizations and the body of place_order;
\* leverage is the `lev` passed to set_leverage and to _calc_qty
OrderFor(a) ==
    LET side == IF a.side = "short" THEN "Sell" ELSE "Buy"
        order_type == IF a.market_entry THEN "Market" ELSE "Limit"
        qty == CalcQty(a.usdt_per_trade, a.entry, Lev(a), a.dec)
        first == QuantizePriceQty(IF order_type = "Market" THEN << >> ELSE << a.entry >>,
                                  qty, a.tick, a.lot, a.dec, a.bias)
        tp == QuantizePriceQty(<< a.take >>, Amount(first.qty), a.tick, a.lot, a.dec, a.bias)
        sl == QuantizePriceQty(<< a.stop >>, Amount(first.qty), a.tick, a.lot, a.dec, a.bias)
    IN [side |-> side, orderType |-> order_type, qty |-> first.qty,
        price |-> first.price, takeProfit |-> tp.price, stopLoss |-> sl.price,
        leverage |-> Lev(a),
        body |-> PlaceOrderBody(side, order_type, first.qty, first.price, tp.price, sl.price)]

\* ---------------------------------------------------------------- bus
\* mutant: a semaphore that keeps one permit back
CanAcquireStrict(s) == s > 1

\* asyncio.Semaphore: acquire() returns at once iff a permit is free
CanAcquire(s) == s > 0

\* mutant: _instrument_info without the cache test of bybit.py:159-160
AfterPrepAlwaysFetches(w) == StartRequest(w, "instruments-info")

\* bus.py:89-124  _calc_qty, the three quantize_price_qty calls and place_order.
\* quantize_price_qty -> _instrument_info (bybit.py:158-167): a cached symbol
\* needs no request, so the three quantizations run through to place_order.
AfterPrep(w) ==
    IF w.cur.symbol \in DOMAIN w.instruments
    THEN StartRequest(w, "place_order")
    ELSE StartRequest(w, "instruments-info")

\* mutant: _handle_signal without `async with self.sem`
HandleSignalNoPermit(w, s) ==
    StartRequest([w EXCEPT !.cur = s,
                           !.status = [@ EXCEPT ![s.id] = "handling"],
                           !.startLog = Append(@, s.id),
                           !.invoked = [@ EXCEPT ![s.id] = @ + 1],
                           !.orderPosts = 0],
                 "set_leverage")

\* mutant: _handle_signal sizes and sends the order without preparing the account
HandleSignalNoPrep(w, s) ==
    LET w1 == [w EXCEPT !.cur = s,
                        !.status = [@ EXCEPT ![s.id] = "handling"],
                        !.startLog = Append(@, s.id),
                        !.invoked = [@ EXCEPT ![s.id] = @ + 1],
                        !.orderPosts = 0]
    IN IF CanAcquire(w1.sem)
       THEN AfterPrep([w1 EXCEPT !.sem = @ - 1])
       ELSE [w1 EXCEPT !.pc = "acquire"]

\* bus.py:70-79  entry of _handle_signal up to the first request
HandleSignal(w, s) ==
    LET w1 == [w EXCEPT !.cur = s,
                        !.status = [@ EXCEPT ![s.id] = "handling"],
                        !.startLog = Append(@, s.id),
                        !.invoked = [@ EXCEPT ![s.id] = @ + 1],
                        !.orderPosts = 0]
    IN IF CanAcquire(w1.sem)
       THEN StartRequest([w1 EXCEPT !.sem = @ - 1], "set_leverage")
       ELSE [w1 EXCEPT !.pc = "acquire"]

\* mutant: the worker takes the newest queued instruction (a LIFO queue)
WorkerLoopLifo(w) ==
    IF w.q = << >>
    THEN [w EXCEPT !.pc = "get"]
    ELSE HandleSignal([w EXCEPT !.q = SubSeq(@, 1, Len(@) - 1)], w.q[Len(w.q)])

\* bus.py:59-62  the loop of _worker: q.get() suspends only on an empty queue
WorkerLoop(w) ==
    IF w.q = << >>
    THEN [w EXCEPT !.pc = "get"]
    ELSE HandleSignal([w EXCEPT !.q = Tail(@)], Head(w.q))

\* mutant: _worker without the `except Exception`: a raising handler ends the loop
HandlerExitWorkerDies(w, outcome) ==
    LET w1 == [w EXCEPT !.sem = @ + 1,
                        !.status = [@ EXCEPT ![w.cur.id] = "done"],
                        !.lastOutcome = outcome,
                        !.cur = NoSignal, !.call = "none", !.tries = 0, !.cs = ZeroCs]
    IN IF outcome = "error" THEN [w1 EXCEPT !.pc = "off"] ELSE WorkerLoop(w1)

\* mutant: _worker puts an instruction whose handler raised back on the queue
HandlerExitRequeue(w, outcome) ==
    WorkerLoop([w EXCEPT !.sem = @ + 1,
                         !.status = [@ EXCEPT ![w.cur.id] = "done"],
                         !.lastOutcome = outcome,
                         !.q = IF outcome = "error" THEN Append(@, w.cur) ELSE @,
                         !.cur = NoSignal, !.call = "none", !.tries = 0, !.cs = ZeroCs])

\* mutant: the permit is released on the normal return only
HandlerExitKeepsPermit(w, outcome) ==
    WorkerLoop([w EXCEPT !.sem = IF outcome = "ok" THEN @ + 1 ELSE @,
                         !.status = [@ EXCEPT ![w.cur.id] = "done"],
                         !.lastOutcome = outcome,
                         !.cur = NoSignal, !.call = "none", !.tries = 0, !.cs = ZeroCs])

\* bus.py:71 (exit of async with), 63-66  _handle_signal ends, by return or by
\* an Exception that _worker catches and logs; then task_done and the next get
HandlerExit(w, outcome) ==
    WorkerLoop([w EXCEPT !.sem = @ + 1,
                         !.status = [@ EXCEPT ![w.cur.id] = "done"],
                         !.lastOutcome = outcome,
                         !.cur = NoSignal, !.call = "none", !.tries = 0, !.cs = ZeroCs])

\* the logical call that ends, for the instruction it was made for
Done(w, outcome) ==
    [op |-> w.call, outcome |-> outcome, tries |-> w.tries, cs |-> w.cs,
     sig |-> w.cur, posts |-> w.orderPosts]

\* bybit.py:174  self._instruments[symbol] = (tick, lot)
Store(d, symbol, sp) == [s \in DOMAIN d \cup {symbol} |-> IF s = symbol THEN sp ELSE d[s]]

\* mutant: an empty instruments-info list is cached with the default steps
RequestReturnCachesDefault(w, rows) ==
    LET w1 == [w EXCEPT !.lastDone = Done(w, "return")]
    IN CASE w.call = "set_leverage" ->
              IF switch_isolated THEN StartRequest(w1, "switch_isolated") ELSE AfterPrep(w1)
         [] w.call = "switch_isolated" -> AfterPrep(w1)
         [] w.call = "instruments-info" ->
              StartRequest([w1 EXCEPT !.instruments =
                                Store(@, w.cur.symbol,
                                      IF rows = << >> THEN [tick |-> "0.0001", lot |-> "0.001"]
                                      ELSE rows[1])],
                           "place_order")
         [] OTHER -> HandlerExit(w1, "ok")

\* bybit.py:139 `return`, seen from the caller in bus.py / _instrument_info.
\* rows is the list of an instruments-info result (bybit.py:166-174).
RequestReturn(w, rows) ==
    LET w1 == [w EXCEPT !.lastDone = Done(w, "return")]
    IN CASE w.call = "set_leverage" ->
              IF switch_isolated THEN StartRequest(w1, "switch_isolated") ELSE AfterPrep(w1)
         [] w.call = "switch_isolated" -> AfterPrep(w1)
         [] w.call = "instruments-info" ->
              IF rows = << >>
              THEN HandlerExit(w1, "error")
              ELSE StartRequest([w1 EXCEPT !.instruments = Store(@, w.cur.symbol, rows[1])],
                                "place_order")
         [] OTHER -> HandlerExit(w1, "ok")

\* mutant: bus.py without the try/except around set_leverage and switch_isolated
RequestRaisePropagates(w) ==
    HandlerExit([w EXCEPT !.lastDone = Done(w, "raise")], "error")

\* bybit.py:146, 151 `raise`, seen from the caller: bus.py:80-81, 86-87 log and
\* go on; an error of instruments-info or place_order leaves _handle_signal.
RequestRaise(w) ==
    LET w1 == [w EXCEPT !.lastDone = Done(w, "raise")]
    IN CASE w.call = "set_leverage" ->
              IF switch_isolated THEN StartRequest(w1, "switch_isolated") ELSE AfterPrep(w1)
         [] w.call = "switch_isolated" -> AfterPrep(w1)
         [] OTHER -> HandlerExit(w1, "error")

\* bybit.py:136-151  what _request does with the outcome of one attempt
Responses == {"ok", "tsw", "err", "http", "decode"}

\* the result of a retCode 0 answer, counted when it is an empty instrument list
OkReturn(w, rows) ==
    RequestReturn([w EXCEPT !.cs.ok = @ + 1,
                            !.cs.empty = IF w.call = "instruments-info" /\ rows = << >>
                                         THEN @ + 1 ELSE @],
                  rows)

\* mutant: a timestamp-window code goes to the backoff without a resync
OnResponseNoResync(w, r, rows) ==
    CASE r = "ok" -> OkReturn(w, rows)
      [] r = "tsw" ->
           LET w1 == [w EXCEPT !.cs.tsw = @ + 1]
           IN IF BudgetRemains(w1, "tsw") THEN [w1 EXCEPT !.pc = "sleep"]
              ELSE RequestRaise(w1)
      [] r = "err" -> RequestRaise([w EXCEPT !.cs.err = @ + 1])
      [] r = "http" ->
           LET w1 == [w EXCEPT !.cs.http = @ + 1]
           IN IF BudgetRemains(w1, "http") THEN [w1 EXCEPT !.pc = "sleep"]
              ELSE RequestRaise(w1)
      [] OTHER -> RequestRaise(w)

\* mutant: every non-zero result code is retried like a transport failure
OnResponseRetryAll(w, r, rows) ==
    CASE r = "ok" -> OkReturn(w, rows)
      [] r = "tsw" -> [w EXCEPT !.cs.tsw = @ + 1, !.pc = "resync"]
      [] r = "err" ->
           LET w1 == [w EXCEPT !.cs.err = @ + 1]
           IN IF BudgetRemains(w1, "http") THEN [w1 EXCEPT !.pc = "sleep"]
              ELSE RequestRaise(w1)
      [] r = "http" ->
           LET w1 == [w EXCEPT !.cs.http = @ + 1]
           IN IF BudgetRemains(w1, "http") THEN [w1 EXCEPT !.pc = "sleep"]
              ELSE RequestRaise(w1)
      [] OTHER -> RequestRaise(w)

OnResponse(w, r, rows) ==
    CASE r = "ok" ->
           OkReturn(w, rows)
      [] r = "tsw" ->
           [w EXCEPT !.cs.tsw = @ + 1, !.pc = "resync"]
      [] r = "err" ->
           RequestRaise([w EXCEPT !.cs.err = @ + 1])
      [] r = "http" ->
           LET w1 == [w EXCEPT !.cs.http = @ + 1]
           IN IF BudgetRemains(w1, "http")
              THEN [w1 EXCEPT !.pc = "sleep"]
              ELSE RequestRaise(w1)
      [] OTHER ->
           RequestRaise(w)

\* bybit.py:142-146  after the forced resync of a timestamp-window code
OnResynced(w) ==
    LET w1 == [w EXCEPT !.cs.resyncs = @ + 1]
    IN IF BudgetRemains(w1, "tsw")
       THEN [w1 EXCEPT !.pc = "sleep"]
       ELSE RequestRaise(w1)

\* ---------------------------------------------------------------- actions
Running == task = "alive" /\ ~cancelReq

WorkerFrame == UNCHANGED << task, cancelReq, stopPc, max_concurrent, switch_isolated,
                            now, enqueued, listing, consumers, arg, ret >>

\* `res.get("list") or []` of bybit.py:166: no row, or the row that is read
Rows == {<< >>} \cup {<< sp >> : sp \in listing}

\* _worker resumes from q.get() (or runs for the first time) with an item queued
Dequeue ==
    /\ Running
    /\ pc = "get"
    /\ q # << >>
    /\ Apply(WorkerLoop(Cur))
    /\ WorkerFrame

\* the GET /v5/market/time of line 126 is answered
PreSyncDone ==
    /\ Running
    /\ pc = "presync"
    /\ \E r \in TimeResponses : Apply(SendAttempt(SyncTime(Cur, r)))
    /\ WorkerFrame

\* the request of lines 133/135 is answered, or fails
Response ==
    /\ Running
    /\ pc = "send"
    /\ \E r \in Responses, rows \in Rows :
         /\ (call # "instruments-info" \/ r # "ok") => rows = << >>
         /\ Apply(OnResponse([Cur EXCEPT !.headers = << >>, !.signedAt = 0], r, rows))
    /\ WorkerFrame

\* the GET /v5/market/time of line 142 is answered
ResyncDone ==
    /\ Running
    /\ pc = "resync"
    /\ \E r \in TimeResponses : Apply(OnResynced(SyncTime(Cur, r)))
    /\ WorkerFrame

\* asyncio.sleep(0.5 * tries) of lines 144/149 is over: continue
SleepDone ==
    /\ Running
    /\ pc = "sleep"
    /\ Apply(SendAttempt([Cur EXCEPT !.cs.sleeps = @ + 1]))
    /\ WorkerFrame

\* CancelledError is thrown into the consumer at the await it is suspended at.
\* It is a BaseException: no `except Exception` of bus.py or bybit.py catches
\* it, the async with releases the permit, and the task ends.
WorkerCancelled ==
    /\ task = "alive"
    /\ cancelReq
    /\ task' = "finished"
    /\ cancelReq' = FALSE
    /\ consumers' = consumers - 1
    /\ LET held == cur # NoSignal /\ pc # "acquire"
           w1 == [Cur EXCEPT !.lastDone = IF call # "none" THEN Done(Cur, "cancelled")
                                          ELSE NoDone]
       IN Apply([w1 EXCEPT !.sem = IF held THEN @ + 1 ELSE @,
                           !.status = IF cur # NoSignal
                                      THEN [@ EXCEPT ![cur.id] = "done"] ELSE @,
                           !.lastOutcome = IF cur # NoSignal THEN "cancelled" ELSE @,
                           !.cur = NoSignal, !.call = "none", !.tries = 0, !.cs = ZeroCs,
                           !.headers = << >>, !.signedAt = 0,
                           !.pc = "off"])
    /\ UNCHANGED << stopPc, max_concurrent, switch_isolated, now, enqueued, listing,
                    arg, ret >>

\* A step outside the consumer task: lastDone and lastSync describe the step
\* just taken, so such a step clears them; so it does lastOutcome, which only
\* start() and the return of stop() let stand.
MainFrame ==
    /\ lastDone' = NoDone
    /\ lastSync' = NoSync
    /\ UNCHANGED << sem, max_concurrent, switch_isolated, cur, call, tries,
                    time_offset_ms, last_sync_ts, instruments, startLog, invoked,
                    cs, orderPosts, listing, headers, signedAt, arg, ret >>

\* mutant: start() without the `if self._task is None` test
StartAlways ==
    /\ task' = "alive"
    /\ pc' = "get"
    /\ consumers' = consumers + 1
    /\ UNCHANGED << q, cancelReq, stopPc, now, enqueued, status, lastOutcome >>
    /\ MainFrame

\* bus.py:39-41  start(): creates the task only if _task is None
Start ==
    IF task = "None"
    THEN /\ task' = "alive"
         /\ pc' = "get"
         /\ consumers' = consumers + 1
         /\ UNCHANGED << q, cancelReq, stopPc, now, enqueued, status, lastOutcome >>
         /\ MainFrame
    ELSE UNCHANGED vars

\* bus.py:43-47  stop(), up to `await self._task`; nothing if _task is None
StopCancel ==
    /\ stopPc = "idle"
    /\ IF task = "alive"
       THEN /\ cancelReq' = TRUE
            /\ stopPc' = "awaiting"
            /\ lastOutcome' = "none"
            /\ UNCHANGED << q, task, pc, now, enqueued, status, consumers >>
            /\ MainFrame
       ELSE UNCHANGED vars

\* mutant: stop() cancels the task and returns without awaiting it
StopReturnNoWait ==
    /\ stopPc = "awaiting"
    /\ task' = "None"
    /\ stopPc' = "idle"
    /\ UNCHANGED << q, cancelReq, pc, now, enqueued, status, lastOutcome, consumers >>
    /\ MainFrame

\* mutant: stop() leaves an empty queue behind
StopReturnDrains ==
    /\ stopPc = "awaiting"
    /\ task = "finished"
    /\ task' = "None"
    /\ stopPc' = "idle"
    /\ q' = << >>
    /\ UNCHANGED << cancelReq, pc, now, enqueued, status, lastOutcome, consumers >>
    /\ MainFrame

\* bus.py:47-48  stop(), once the awaited task has ended
StopReturn ==
    /\ stopPc = "awaiting"
    /\ task = "finished"
    /\ task' = "None"
    /\ stopPc' = "idle"
    /\ UNCHANGED << q, cancelReq, pc, now, enqueued, status, lastOutcome, consumers >>
    /\ MainFrame

\* bus.py:50-51  enqueue()
Enqueue ==
    /\ enqueued < MaxSignals
    /\ enqueued' = enqueued + 1
    /\ \E sym \in Symbols : q' = Append(q, [id |-> enqueued + 1, symbol |-> sym])
    /\ status' = [status EXCEPT ![enqueued + 1] = IF task = "None" /\ startLog # << >>
                                                    THEN "parked" ELSE "queued"]
    /\ lastOutcome' = "none"
    /\ UNCHANGED << task, cancelReq, stopPc, pc, now, consumers >>
    /\ MainFrame

\* the clock advances
Tick ==
    /\ now < time_resync_sec + 1 + MaxTicks
    /\ now' = now + 1
    /\ lastOutcome' = "none"
    /\ UNCHANGED << q, task, cancelReq, stopPc, pc, enqueued, status, consumers >>
    /\ MainFrame

\* bus.py:20-37, bybit.py:47-49  after construction.  _last_sync_ts = 0.0 is the
\* epoch, so the first call finds the offset stale.
InitWith(limits, isolated, specs) ==
    /\ q = << >>
    /\ task = "None"
    /\ cancelReq = FALSE
    /\ stopPc = "idle"
    /\ max_concurrent \in limits
    /\ sem = max_concurrent
    /\ switch_isolated \in isolated
    /\ listing = specs
    /\ pc = "off"
    /\ cur = NoSignal
    /\ call = "none"
    /\ tries = 0
    /\ time_offset_ms = 0
    /\ last_sync_ts = 0
    /\ instruments = EmptyDict
    /\ now = time_resync_sec + 1
    /\ enqueued = 0
    /\ status = [i \in Ids |-> "new"]
    /\ lastOutcome = "none"
    /\ startLog = << >>
    /\ invoked = [i \in Ids |-> 0]
    /\ cs = ZeroCs
    /\ lastDone = NoDone
    /\ orderPosts = 0
    /\ headers = << >>
    /\ signedAt = 0
    /\ lastSync = NoSync
    /\ consumers = 0

\* every configuration of the bus, an exchange whose instrument data is static
Init == InitWith(Limits, BOOLEAN, {StaticSpec}) /\ arg = NoArg /\ ret = << >>

Next ==
    \/ Start
    \/ StopCancel
    \/ StopReturn
    \/ Enqueue
    \/ Tick
    \/ Dequeue
    \/ PreSyncDone
    \/ Response
    \/ ResyncDone
    \/ SleepDone
    \/ WorkerCancelled

Spec == Init /\ [][Next]_vars

\* The event loop runs every ready task, every HTTP call carries the client's
\* timeout (bybit.py:41-45) and every sleep is finite: a step of the consumer
\* that is possible is eventually taken.  start(), stop(), enqueue() and the
\* clock are under no such obligation.
WorkerNext ==
    Dequeue \/ PreSyncDone \/ Response \/ ResyncDone \/ SleepDone \/ WorkerCancelled

\* the bus as the application constructs it, with max_concurrent left at 1
FairInit == InitWith({1}, BOOLEAN, {StaticSpec}) /\ arg = NoArg /\ ret = << >>

FairSpec == FairInit /\ [][Next]_vars /\ WF_vars(WorkerNext)

\* The default configuration (max_concurrent = 1, BYBIT_SWITCH_ISOLATED off,
\* bus.py:27, config.py:106) against an exchange that may answer the instrument
\* lookup of one symbol differently from one request to the next.
CacheInit == InitWith({1}, {FALSE}, InstrSpecs) /\ arg = NoArg /\ ret = << >>

CacheSpec == CacheInit /\ [][Next]_vars

\* The sizing and quantization functions on their own: one input, one call.
QuantizeArgs ==
    [op : {"quantize_price_qty"}, dec : Decs, bias : Biases,
     price : {<< >>} \cup {<< x >> : x \in 1..MaxPrice}, qty : 1..MaxQty,
     tick : StepUnits, lot : StepUnits]

\* the amounts of an instruction and of the configuration have two decimals;
\* 1e-9 in place of an entry multiplies the nominal by 10^9, which the
\* integers of the model hold for the smallest nominals only
HandleArgs ==
    {a \in [op : {"_handle_signal"}, dec : {2}, bias : Biases,
            side : Sides, entry : Entries, stop : Stops, take : Takes,
            leverage : Overrides, usdt_per_trade : Risks,
            default_leverage : Leverages, market_entry : BOOLEAN,
            tick : {1, 5}, lot : {10, 25}] :
        a.entry >= 1 \/ a.usdt_per_trade * Lev(a) <= 2}

QuantInit ==
    /\ InitWith({1}, {FALSE}, {StaticSpec})
    /\ ret = << >>
    /\ (arg \in QuantizeArgs \/ arg \in HandleArgs)

QuantFrame == UNCHANGED << q, task, cancelReq, stopPc, sem, max_concurrent,
                           switch_isolated, pc, cur, call, tries, time_offset_ms,
                           last_sync_ts, instruments, now, enqueued, listing, status,
                           lastOutcome, startLog, invoked, cs, lastDone, orderPosts,
                           headers, signedAt, lastSync, consumers, arg >>

CallQuantize ==
    /\ arg.op = "quantize_price_qty"
    /\ ret = << >>
    /\ ret' = << QuantizePriceQty(arg.price, Amount(arg.qty), arg.tick, arg.lot,
                                  arg.dec, arg.bias) >>
    /\ QuantFrame

CallHandle ==
    /\ arg.op = "_handle_signal"
    /\ ret = << >>
    /\ ret' = << OrderFor(arg) >>
    /\ QuantFrame

QuantNext == CallQuantize \/ CallHandle

QuantSpec == QuantInit /\ [][QuantNext]_vars

\* ---------------------------------------------------------------- properties
InQueue(i) == \E k \in 1..Len(q) : q[k].id = i

\* handlers inside the `async with self.sem` block
Executing == {i \in Ids : cur.id = i /\ pc # "acquire"}

InCall == call # "none"

\* C1: with concurrency limit 1, _handle_signal is entered in the order of the
\* enqueue() calls (ids are given in that order), and when an instruction's
\* handler has been entered the handler of every instruction entered before it
\* has ended.
C1_FifoOneAtATime ==
    max_concurrent = 1 =>
        /\ \A k \in 1..Len(startLog) : startLog[k] = k
        /\ \A k \in 1..(Len(startLog) - 1) : status[startLog[k]] = "done"

C1_Witness ==
    /\ max_concurrent = 1
    /\ Len(startLog) >= 2
    /\ status[startLog[Len(startLog)]] = "handling"

\* C2: a handler that raises does not end the consumer: whatever the handlers
\* before did, it never comes to a point from which on some instruction is
\* always queued under a consumer task that is alive and not being cancelled.
C2_FailureDoesNotHalt ==
    []<>~(\E i \in Ids : status[i] \in {"queued", "parked"} /\ task = "alive" /\ ~cancelReq)

C2_Witness ==
    /\ lastOutcome = "error"
    /\ cur # NoSignal
    /\ task = "alive"

\* C3: every instruction enqueued is either still in the queue, once, with its
\* handler never entered, or out of the queue with its handler entered exactly
\* once.
C3_ConsumedExactlyOnce ==
    \A i \in Ids :
        /\ invoked[i] <= 1
        /\ Cardinality({k \in 1..Len(q) : q[k].id = i}) <= 1
        /\ InQueue(i) => invoked[i] = 0
        /\ (i <= enqueued /\ ~InQueue(i)) => invoked[i] = 1

C3_Witness ==
    /\ lastOutcome = "error"
    /\ lastDone.op = "place_order"
    /\ lastDone.cs.err = 1
    /\ \E i \in Ids : status[i] = "done" /\ invoked[i] = 1

\* C4: the handlers inside the permit-guarded block never outnumber the
\* configured limit: each of them has taken one permit out of max_concurrent.
C4_PermitsBounded ==
    /\ Cardinality(Executing) <= max_concurrent
    /\ sem >= 0
    /\ Cardinality(Executing) + sem = max_concurrent

C4_Witness ==
    /\ Cardinality(Executing) = max_concurrent
    /\ call = "place_order"

\* C5: whenever no handler is running, after a return, an exception or a
\* cancellation, all max_concurrent permits are free.
C5_PermitReleased ==
    cur = NoSignal => sem = max_concurrent

C5_Witness ==
    /\ cur = NoSignal
    /\ lastOutcome = "cancelled"
    /\ sem = max_concurrent

\* C6: within one logical call every timestamp-window response is followed by
\* exactly one forced resync, and no further attempt is sent (and no backoff
\* started) before that resync is over.
C6_OneResyncPerWindowCode ==
    /\ pc \in {"send", "sleep"} => cs.resyncs = cs.tsw
    /\ pc = "resync" => cs.resyncs + 1 = cs.tsw
    /\ lastDone.outcome \in {"return", "raise"} => lastDone.cs.resyncs = lastDone.cs.tsw

C6_Witness ==
    /\ pc = "send"
    /\ cs.tsw >= 1
    /\ cs.resyncs = cs.tsw

\* C7, as claimed: a call whose every attempt was answered with a
\* timestamp-window code fails after max_retries requests.
C7_FailsAfterMaxRetriesRequests ==
    (lastDone.outcome = "raise" /\ lastDone.cs.tsw = lastDone.tries)
        => lastDone.tries = max_retries

\* C7, amended: such a call fails after max_retries + 1 requests, the first
\* attempt and max_retries retries.
C7_FailsAfterMaxRetriesPlusOne ==
    (lastDone.outcome = "raise" /\ lastDone.cs.tsw = lastDone.tries)
        => lastDone.tries = max_retries + 1

C7_Witness ==
    /\ lastDone.outcome = "raise"
    /\ lastDone.cs.tsw = lastDone.tries
    /\ lastDone.tries = max_retries + 1

\* C8: a result code other than 0, 10002 and 10003 ends the call with an error
\* at once: no call in progress has seen one, and a call that saw one raised
\* with that attempt as its last, with no sleep and no resync after it.
C8_OtherCodeIsTerminal ==
    /\ InCall => cs.err = 0
    /\ lastDone.cs.err > 0 =>
         /\ lastDone.outcome = "raise"
         /\ lastDone.cs.err = 1
         /\ lastDone.tries = lastDone.cs.tsw + lastDone.cs.http + 1
         /\ lastDone.cs.sleeps = lastDone.tries - 1
         /\ lastDone.cs.resyncs = lastDone.cs.tsw

C8_Witness ==
    /\ lastDone.cs.err = 1
    /\ lastDone.outcome = "raise"
    /\ lastDone.tries = 1

\* C9: a logical call sends at most max_retries + 1 requests, timestamp-window
\* codes and transport failures together causing at most max_retries retries,
\* and a result code 0 ends it with a return.
C9_RetriesBounded ==
    /\ tries <= max_retries + 1
    /\ cs.sleeps <= max_retries
    /\ InCall => cs.ok = 0
    /\ lastDone.tries <= max_retries + 1
    /\ lastDone.cs.sleeps <= max_retries
    /\ lastDone.cs.ok > 0 => (lastDone.outcome = "return" /\ lastDone.cs.ok = 1)
    /\ (lastDone.outcome = "raise" /\ lastDone.cs.err = 0
          /\ lastDone.cs.tsw + lastDone.cs.http = lastDone.tries)
         => lastDone.tries = max_retries + 1

C9_Witness ==
    /\ lastDone.outcome = "raise"
    /\ lastDone.cs.tsw >= 1
    /\ lastDone.cs.http >= 1
    /\ lastDone.cs.tsw + lastDone.cs.http = max_retries + 1

\* C10: at most one POST /v5/order/create is sent for an instruction.
C10_OrderSentOnce ==
    orderPosts <= 1

\* C11: a set_leverage or switch_isolated call that raised (terminal code or
\* retries exhausted) does not leave _handle_signal: in the step in which it
\* raised the same instruction has gone on to the next call of the handler,
\* switch_isolated if configured, else the instrument lookup of the first
\* quantization, and with the instrument cached to place_order itself.
PrepFailed == lastDone.op \in {"set_leverage", "switch_isolated"} /\ lastDone.outcome = "raise"

C11_PrepFailureNotPropagated ==
    PrepFailed =>
        /\ cur # NoSignal
        /\ status[cur.id] = "handling"
        /\ call = (IF lastDone.op = "set_leverage" /\ switch_isolated
                   THEN "switch_isolated"
                   ELSE IF cur.symbol \in DOMAIN instruments THEN "place_order"
                        ELSE "instruments-info")
        /\ tries <= 1
        /\ (call = "place_order" /\ pc = "send") => orderPosts = 1

C11_Witness ==
    /\ PrepFailed
    /\ lastDone.op = "switch_isolated"
    /\ call = "place_order"
    /\ pc = "send"
    /\ orderPosts = 1

\* C12: an instruments-info answer with an empty list is the last event of its
\* call (no retry: nothing is answered, slept or resynced after it), and in
\* the step in which it arrives the handler of the instruction has ended with
\* an error, the symbol has no cache entry and no POST /v5/order/create was
\* sent for the instruction.
C12_EmptyLookupIsTerminal ==
    /\ InCall => cs.empty = 0
    /\ lastDone.cs.empty > 0 =>
         /\ lastDone.op = "instruments-info"
         /\ lastDone.cs.empty = 1
         /\ lastDone.cs.ok = 1
         /\ lastDone.tries = lastDone.cs.tsw + lastDone.cs.http + 1
         /\ lastOutcome = "error"
         /\ status[lastDone.sig.id] = "done"
         /\ cur # lastDone.sig
         /\ lastDone.sig.symbol \notin DOMAIN instruments
         /\ lastDone.posts = 0

C12_Witness ==
    /\ lastDone.cs.empty = 1
    /\ lastDone.cs.http = 1
    /\ lastOutcome = "error"
    /\ cur # NoSignal
    /\ cur.symbol = lastDone.sig.symbol
    /\ call = "set_leverage"

\* C13: a _sync_time that failed leaves _time_offset_ms and _last_sync_ts as
\* they were and raises nothing: the sync before the first attempt is followed,
\* in the same step, by that attempt, signed with the old offset; after a
\* forced resync the call goes on as its retry budget says, to the backoff
\* before the next attempt or, the budget spent, to the error of the
\* timestamp-window code.
SyncFailed == lastSync.res = "failed"

C13_FailedSyncChangesNothing ==
    SyncFailed =>
        /\ time_offset_ms = lastSync.offset
        /\ last_sync_ts = lastSync.ts
        /\ lastSync.phase = "presync" =>
              /\ pc = "send"
              /\ tries = 1
              /\ lastDone = NoDone
              /\ Auth(call) => headers = << signedAt * 1000 + lastSync.offset >>
        /\ lastSync.phase = "resync" =>
              \/ pc = "sleep" /\ tries <= max_retries /\ lastDone = NoDone
              \/ lastDone.outcome = "raise" /\ lastDone.tries = max_retries + 1
                    /\ lastDone.cs.resyncs = lastDone.cs.tsw

C13_Witness ==
    /\ SyncFailed
    /\ lastSync.phase = "presync"
    /\ lastSync.offset = 500
    /\ lastSync.ts < now
    /\ call = "place_order"
    /\ headers = << NowMs + 500 >>

\* C14: an instruction that is inside _handle_signal when stop() is called is
\* not abandoned: every handler that has ended either returned or raised an
\* error that _worker caught and logged; none was cut off by the cancellation.
C14_NoHandlerAbandoned ==
    lastOutcome \in {"none", "ok", "error"}

\* C15: stop() returns only when the consumer task has ended: whenever no
\* stop() is in progress and _task is None (before the first start() and from
\* the return of stop() to the next start()), the consumer is suspended
\* nowhere, no logical call is open, no request is in flight, no cancellation
\* is pending and no step of the consumer (request, retry, sleep, resync) can
\* be taken.
C15_StoppedMeansSilent ==
    /\ stopPc = "awaiting" => task \in {"alive", "finished"}
    /\ task = "None" =>
         /\ stopPc = "idle"
         /\ pc = "off"
         /\ ~cancelReq
         /\ cur = NoSignal
         /\ call = "none"
         /\ headers = << >>
         /\ ~ENABLED WorkerNext

C15_Witness ==
    /\ task = "None"
    /\ stopPc = "idle"
    /\ lastOutcome = "cancelled"
    /\ orderPosts >= 1
    /\ q # << >>

\* C16: whatever start() and stop() calls are made, at most one consumer task
\* exists: the tasks created and not ended number one while _task is alive
\* and none otherwise, and nothing is being cancelled or awaited while _task
\* is None.
C16_AtMostOneConsumer ==
    /\ consumers \in {0, 1}
    /\ consumers = 1 <=> task = "alive"
    /\ task = "None" => (~cancelReq /\ stopPc = "idle")

C16_Witness ==
    /\ consumers = 1
    /\ task = "alive"
    /\ lastOutcome = "cancelled"
    /\ pc = "get"
    /\ q # << >>

\* C17: an entry of _instruments, once stored, stays and keeps its value in
\* every step, and no instruments-info call is made for a symbol that has an
\* entry, whatever the exchange would answer now.
CacheKept ==
    \A sym \in DOMAIN instruments :
        sym \in DOMAIN instruments' /\ instruments'[sym] = instruments[sym]

C17_CacheWriteOnce ==
    /\ [](call = "instruments-info" => cur.symbol \notin DOMAIN instruments)
    /\ [][CacheKept]_vars

C17_Witness ==
    /\ call = "place_order"
    /\ cur.symbol \in DOMAIN instruments
    /\ lastDone.op = "set_leverage"
    /\ instruments[cur.symbol] # StaticSpec

\* C18: the request in flight of an authenticated call carries the timestamp
\* local clock + _time_offset_ms, both as they were when that attempt, first
\* or retry, was sent; an unauthenticated request carries no signature; the
\* offset is 0 until a sync succeeds and changes only in the step in which a
\* sync is answered, to the skew that sync measured.
NewAttempt == pc' = "send" /\ << cur, call, tries >>' # << cur, call, tries >>

C18_EveryAttemptSignedAnew ==
    /\ [](pc = "send" =>
            headers = IF Auth(call) THEN << signedAt * 1000 + time_offset_ms >> ELSE << >>)
    /\ [](last_sync_ts = 0 => time_offset_ms = 0)
    /\ [][(NewAttempt /\ Auth(call')) => signedAt' = now']_vars
    /\ [][time_offset_ms' # time_offset_ms =>
            /\ pc \in {"presync", "resync"}
            /\ time_offset_ms' \in Skews
            /\ last_sync_ts' = now]_vars

C18_Witness ==
    /\ pc = "send"
    /\ call = "place_order"
    /\ tries = 2
    /\ cs.resyncs = 1
    /\ time_offset_ms = 500
    /\ last_sync_ts = now
    /\ now > time_resync_sec + 1
    /\ headers = << NowMs + 500 >>

\* a step with at most ten decimal places
FitsPlaces(step, dec) == dec <= Places \/ step % Pow10(dec - Places) = 0

Quantized == arg.op = "quantize_price_qty" /\ ret # << >>

Handled == arg.op = "_handle_signal" /\ ret # << >>

\* spec section 8: SOLUSDT short at 150.0, stop 155.0, take 140.0, no leverage
\* of its own, default leverage 20, risk 100 USDT, tick 0.01, step 0.1
IsScenario ==
    /\ arg.op = "_handle_signal"
    /\ arg.side = "short" /\ arg.entry = 15000 /\ arg.stop = 15500 /\ arg.take = 14000
    /\ arg.leverage = << >> /\ arg.default_leverage = 20 /\ arg.usdt_per_trade = 10000
    /\ arg.tick = 1 /\ arg.lot = 10 /\ ~arg.market_entry

\* C20: the order built for an instruction has side Sell for a short and Buy
\* for a long, and its quantity is the raw quantity
\* raw = risk * leverage / max(entry, 1e-9) brought to the quantity step: the
\* multiple of the step nearest to raw, and one step if that is less; in the
\* scenario of the specification raw is 13.33.. and the quantity 13.3.
C20_SideAndSizing ==
    Handled =>
        LET o == ret[1]
            raw == IF arg.entry >= 1
                   THEN [n |-> arg.usdt_per_trade * o.leverage * Pow10(arg.dec),
                         d |-> arg.entry]
                   ELSE [n |-> arg.usdt_per_trade * o.leverage * EpsilonInv, d |-> 1]
            Near(m) == /\ m % arg.lot = 0
                       /\ 2 * (m * raw.d - raw.n) <= arg.lot * raw.d
                       /\ 2 * (raw.n - m * raw.d) <= arg.lot * raw.d
        IN /\ o.side = (IF arg.side = "short" THEN "Sell" ELSE "Buy")
           /\ arg.leverage # << 0 >> =>
                 o.leverage = (IF arg.leverage = << >> THEN arg.default_leverage
                               ELSE arg.leverage[1])
           /\ \/ Near(o.qty) /\ o.qty >= arg.lot
              \/ o.qty = arg.lot /\ raw.n < arg.lot * raw.d - raw.n
           /\ IsScenario =>
                 (o.side = "Sell" /\ o.qty = 1330 /\ 3 * raw.n = 4000 * raw.d)

C20_Witness ==
    /\ Handled
    /\ IsScenario
    /\ ret[1].side = "Sell"
    /\ ret[1].qty = 1330

\* the multiple of step nearest to x (either neighbour at a tie)
NearestMultiple(m, x, step) ==
    /\ m % step = 0
    /\ 2 * (m - x) <= step
    /\ 2 * (x - m) <= step

\* C21: with market entry the entry price is not quantized (it stays None) and
\* the body of POST /v5/order/create has no price key; with limit entry the
\* body carries the multiple of the tick nearest to the entry; in both cases
\* it carries take-profit and stop-loss as the multiples of the tick nearest
\* to the instruction's take and stop.
C21_MarketEntryHasNoPrice ==
    Handled =>
        LET b == ret[1].body
        IN /\ arg.market_entry =>
                /\ b.orderType = << "Market" >>
                /\ ret[1].price = << >>
                /\ "price" \notin DOMAIN b
           /\ ~arg.market_entry =>
                /\ b.orderType = << "Limit" >>
                /\ "price" \in DOMAIN b
                /\ NearestMultiple(b.price[1], arg.entry, arg.tick)
           /\ {"takeProfit", "stopLoss"} \subseteq DOMAIN b
           /\ NearestMultiple(b.takeProfit[1], arg.take, arg.tick)
           /\ NearestMultiple(b.stopLoss[1], arg.stop, arg.tick)

C21_Witness ==
    /\ Handled
    /\ arg.market_entry
    /\ arg.entry = 7
    /\ arg.tick = 5
    /\ DOMAIN ret[1].body = {"side", "orderType", "qty", "takeProfit", "stopLoss"}
    /\ ret[1].body.takeProfit = << 10 >>
    /\ ret[1].body.stopLoss = << 5 >>

\* a step in which _request is entered: a logical call that was not open before
CallStarts == call' # "none" /\ << cur, call >>' # << cur, call >>

\* C22: a logical call, authenticated or not, starts with a time sync exactly
\* when the clock is more than time_resync_sec past _last_sync_ts (the last
\* successful sync, the epoch before the first) as _request is entered; else
\* its first request goes out in that same step.  The sync before the first
\* attempt is one sync: the step that answers it sends attempt 1, and no later
\* step of the call returns to it.  Any other sync of the call is the resync
\* that a timestamp-window code forces.
C22_PresyncIffStale ==
    /\ [][CallStarts =>
            IF (now' - last_sync_ts') > time_resync_sec
            THEN pc' = "presync" /\ tries' = 0
            ELSE pc' = "send" /\ tries' = 1]_vars
    /\ [][(pc' = "presync" /\ pc # "presync") => CallStarts]_vars
    /\ [][(pc = "presync" /\ pc' # "presync") =>
            \/ pc' = "send" /\ tries' = 1 /\ << cur, call >>' = << cur, call >>
            \/ task' = "finished"]_vars
    /\ [](pc = "presync" => (tries = 0 /\ cs = ZeroCs))
    /\ [](pc = "resync" => (cs.tsw >= 1 /\ cs.resyncs = cs.tsw - 1))

C22_Witness ==
    /\ SyncFailed
    /\ lastSync.phase = "presync"
    /\ lastSync.ts > 0
    /\ (now - lastSync.ts) > time_resync_sec
    /\ Auth(call)
    /\ call = "set_leverage"
    /\ pc = "send"
    /\ tries = 1

\* the last call of the account preparation: bus.py:83  if cfg.BYBIT_SWITCH_ISOLATED
PrepLast == IF switch_isolated THEN "switch_isolated" ELSE "set_leverage"

\* the step just taken ended the logical call op of the instruction now handled
\* (by a return or by a raise)
JustFinished(op) ==
    /\ lastDone'.op = op
    /\ lastDone'.outcome \in {"return", "raise"}
    /\ lastDone'.sig = cur'

\* C23: the calls of one instruction start in a fixed order.  set_leverage
\* starts as the handler is entered; switch_isolated, only if configured, in
\* the step that ends set_leverage; the instrument lookup, only for a symbol
\* not cached, in the step that ends the last preparation call; and
\* place_order in the step that ends the lookup with a return and a cached
\* row, or, for a cached symbol, in the step that ends the last preparation
\* call.  A preparation call may have ended by a return or a raise.  No POST
\* /v5/order/create goes out unless the symbol's tick and step, which the
\* three quantizations need, are there, and a lookup that failed ends the
\* handler with no order sent.
C23_FixedCallOrder ==
    /\ [][CallStarts =>
            CASE call' = "set_leverage" ->
                   cur' # cur /\ orderPosts' = 0
              [] call' = "switch_isolated" ->
                   /\ switch_isolated
                   /\ cur' = cur
                   /\ call = "set_leverage"
                   /\ JustFinished("set_leverage")
              [] call' = "instruments-info" ->
                   /\ cur' = cur
                   /\ call = PrepLast
                   /\ JustFinished(PrepLast)
                   /\ cur.symbol \notin DOMAIN instruments'
              [] OTHER ->
                   /\ call' = "place_order"
                   /\ cur' = cur
                   /\ cur.symbol \in DOMAIN instruments'
                   /\ \/ call = PrepLast /\ JustFinished(PrepLast)
                      \/ /\ call = "instruments-info"
                         /\ JustFinished("instruments-info")
                         /\ lastDone'.outcome = "return"
                         /\ lastDone'.cs.empty = 0]_vars
    /\ [][orderPosts' > orderPosts =>
            (call' = "place_order" /\ cur'.symbol \in DOMAIN instruments')]_vars
    /\ []((lastDone.op = "instruments-info" /\ lastOutcome = "error") =>
            (lastDone.posts = 0 /\ cur # lastDone.sig))

C23_Witness ==
    /\ switch_isolated
    /\ call = "place_order"
    /\ pc = "send"
    /\ orderPosts = 1
    /\ lastDone.op = "instruments-info"
    /\ lastDone.outcome = "return"
    /\ lastDone.tries = 2
    /\ lastDone.sig = cur

\* a step that writes _time_offset_ms or _last_sync_ts (bybit.py:78-79)
Published == << time_offset_ms, last_sync_ts >>' # << time_offset_ms, last_sync_ts >>

\* C24: _time_offset_ms and _last_sync_ts change in one step or not at all.  A
\* step that changes either is the answer of a sync that did not fail: it
\* leaves _last_sync_ts at the clock and the offset at the skew that sync
\* measured, and the attempt signed in that step already carries the new
\* offset.  No state has an offset other than 0 with _last_sync_ts still
\* before the first instant of the run.
C24_OffsetAndSyncTsTogether ==
    /\ [][Published =>
            /\ pc \in {"presync", "resync"}
            /\ last_sync_ts' = now
            /\ time_offset_ms' \in Skews
            /\ lastSync' = NoSync
            /\ (time_offset_ms' # time_offset_ms => last_sync_ts' >= last_sync_ts)
            /\ (pc' = "send" /\ Auth(call')) => headers' = << NowMs + time_offset_ms' >>]_vars
    /\ [](time_offset_ms # 0 => last_sync_ts >= time_resync_sec + 1)
    /\ [](last_sync_ts <= now)

C24_Witness ==
    /\ time_offset_ms = 500
    /\ last_sync_ts = now
    /\ now > time_resync_sec + 1
    /\ pc = "send"
    /\ call = "set_leverage"
    /\ tries = 1
    /\ signedAt = now
    /\ headers = << NowMs + 500 >>

\* C25, as claimed: the leverage passed to set_leverage and to _calc_qty is
\* the instruction's own whenever it has one, 0 included, and the configured
\* default only when it has none; the quantity is sized with it.
C25_OverrideAlwaysUsed ==
    Handled =>
        LET lev == IF arg.leverage = << >> THEN arg.default_leverage ELSE arg.leverage[1]
        IN /\ ret[1].leverage = lev
           /\ ret[1].qty = QuantizePriceQty(<< >>, CalcQty(arg.usdt_per_trade, arg.entry,
                                                         lev, arg.dec),
                                            arg.tick, arg.lot, arg.dec, arg.bias).qty

\* instructions whose handler has been entered and has not ended
InFlight == {i \in Ids : status[i] = "handling"}

\* C26: whatever max_concurrent is, at most one handler is in flight: the
\* handler entered last is the only one that may not have ended, the consumer
\* takes nothing from the queue while it is in one, and no handler ever waits
\* for a permit: while one runs exactly one permit is out, max_concurrent - 1
\* are free, and all are free when none runs.
C26_HandlersNeverOverlap ==
    /\ Cardinality(InFlight) <= 1
    /\ InFlight = (IF cur = NoSignal THEN {} ELSE {cur.id})
    /\ \A k \in 1..(Len(startLog) - 1) : status[startLog[k]] = "done"
    /\ pc # "acquire"
    /\ sem = max_concurrent - Cardinality(InFlight)
    /\ cur # NoSignal => ~ENABLED Dequeue

C26_Witness ==
    /\ max_concurrent = 2
    /\ InFlight = {1}
    /\ q # << >>
    /\ sem = 1
    /\ pc = "sleep"
    /\ call = "place_order"

\* the ids of the queued instructions, head first
QueueIds == [k \in 1..Len(q) |-> q[k].id]

\* C27: nothing leaves the queue but its head, taken by a running consumer,
\* and nothing enters it but at its tail: the ids whose handler was entered,
\* followed by the ids in the queue, are 1, 2, .. in the order of the
\* enqueue() calls, whether a consumer exists or not, so what is enqueued
\* before the first start() or after a stop() stays, in order.  A start() that
\* finds _task None creates the one consumer, at its q.get(), with the queue
\* as it was, and a running consumer at q.get() with a queue that is not empty
\* can take the head.
C27_QueueSurvivesRestart ==
    /\ [](startLog \o QueueIds = [k \in 1..enqueued |-> k])
    /\ [](\A i \in Ids : status[i] \in {"queued", "parked"} <=> InQueue(i))
    /\ [][q' # q =>
            \/ \E sym \in Symbols : q' = Append(q, [id |-> enqueued + 1, symbol |-> sym])
            \/ task = "alive" /\ ~cancelReq /\ q' = Tail(q) /\ cur' = Head(q)]_vars
    /\ [][(task = "None" /\ task' # "None") =>
            (task' = "alive" /\ pc' = "get" /\ consumers = 0 /\ consumers' = 1 /\ q' = q)]_vars
    /\ []((task = "alive" /\ ~cancelReq /\ pc = "get" /\ q # << >>) => ENABLED Dequeue)

C27_Witness ==
    /\ task = "alive"
    /\ ~cancelReq
    /\ consumers = 1
    /\ pc = "get"
    /\ q # << >>
    /\ status[Head(q).id] = "parked"
    /\ startLog = << 1 >>
    /\ ENABLED Dequeue

====
